---- MODULE Spec2Model ----
(***************************************************************************)
(* Token-based authentication core of the collaboration-platform backend:  *)
(* token issuing (create_access_token, create_refresh_token), decoding     *)
(* (decode_token), identity resolution (get_current_user) and the          *)
(* register / login / refresh / me handlers of routers/auth.py.            *)
(*                                                                         *)
(* Time is counted in clock ticks, TicksPerSec ticks to the second.  The   *)
(* JWT library writes exp and iat as whole seconds, so a token carries     *)
(* seconds while the clock and the random jitter are in ticks.  Durations  *)
(* are scaled down: the model's minute is SecPerMin seconds long and its   *)
(* day SecPerDay seconds.                                                  *)
(***************************************************************************)
EXTENDS Integers, Sequences, FiniteSets, TLC

VARIABLES
    now,      \* the clock, in ticks (datetime.utcnow / time.time)
    users,    \* the users table: a sequence of rows, row i has id i
    last,     \* the token pair issued last, and how it came to be (history)
    resp,     \* the response to the last request
    SECRET_KEY,  \* the signing secret the process read at import time
    db,       \* the persistence layer: "up", or "down" when a query raises
    projects, \* the projects table: a sequence of rows, row i has id i
    requests, \* the collaboration_requests table: a set of rows
    inflight  \* requests that passed their checks and have yet to commit,
              \* in the order they came

vars == <<now, users, last, resp, SECRET_KEY, db, projects, requests, inflight>>

\* the variables the handlers of routers/auth.py do not write
others == <<db, projects, requests, inflight>>

----------------------------------------------------------------------------
(* Bounds of the model *)

MaxNow == 3
MaxUsers == 2

(* Configuration, services/auth.py lines 22-25 *)

\* os.getenv("JWT_SECRET"): the secret of the deployment, or None when the
\* variable is not set
JwtSecret == "process-secret"
NoKey == "unset"
OtherKey == "other-secret"
ACCESS_TOKEN_EXPIRE_MINUTES == 1
REFRESH_TOKEN_EXPIRE_DAYS == 1

(* Time scale *)

TicksPerSec == 3
SecPerMin == 1
SecPerDay == 2

Minutes(m) == m * SecPerMin * TicksPerSec
Days(d) == d * SecPerDay * TicksPerSec

\* timegm(dt.utctimetuple()): a datetime as whole seconds, the fraction dropped
ToIntDate(ticks) == ticks \div TicksPerSec

NowSec == ToIntDate(now)
MaxSec == ToIntDate(MaxNow)

----------------------------------------------------------------------------
(* Python values inside a token payload *)

NoSub == [t |-> "none", v |-> ""]
StrVal(s) == [t |-> "str", v |-> s]
IntVal(i) == [t |-> "int", v |-> ToString(i)]

\* the subject left as the caller gave it
PyRaw(x) == x

\* str(x) of services/auth.py lines 71-72 and 165-166
PyStr(x) == IF x.t = "int" THEN [t |-> "str", v |-> x.v] ELSE x

Ids == 1..(MaxUsers + 1)

\* int(x) of services/auth.py line 245: 0 stands for ValueError / TypeError
PyInt(x) ==
    IF x.t \in {"int", "str"} /\ \E i \in Ids : ToString(i) = x.v
    THEN CHOOSE i \in Ids : ToString(i) = x.v
    ELSE 0

NoNonce == [at |-> -1, r |-> 0]
NoType == "none"
NoTime == -1

\* the dict a caller hands to the issuer; absent keys hold the No.. values
Data(sub, nonce) ==
    [sub |-> sub, nonce |-> nonce, type |-> NoType, exp |-> NoTime, iat |-> NoTime]

\* no dict at all
NoData == Data(NoSub, NoNonce)

----------------------------------------------------------------------------
(* The JWT library as the code uses it *)

\* jwt.encode(to_encode, SECRET_KEY, algorithm=ALGORITHM): datetime claims
\* become whole seconds; HS256 is deterministic, so equal claims under the
\* same key give the same string
JwtEncode(claims, key) ==
    [jws   |-> TRUE,
     key   |-> key,
     sub   |-> claims.sub,
     type  |-> claims.type,
     nonce |-> claims.nonce,
     iat   |-> ToIntDate(claims.iat),
     exp   |-> ToIntDate(claims.exp)]

\* jwt.encode raises (JWSError: "Expecting a string- or bytes-formatted
\* key.") when the key is None
JwtEncodeRaises(key) == key = NoKey

\* a string that is no JWS at all ("invalid_token")
Garbage ==
    [jws |-> FALSE, key |-> NoKey, sub |-> NoSub, type |-> NoType,
     nonce |-> NoNonce, iat |-> NoTime, exp |-> NoTime]

\* what no bearer header / an empty body token looks like
NoToken ==
    [jws |-> FALSE, key |-> NoKey, sub |-> NoSub, type |-> "absent",
     nonce |-> NoNonce, iat |-> NoTime, exp |-> NoTime]

JwtOk(token) == [err |-> "none", msg |-> "", claims |-> token]
JwtErr(kind, msg) == [err |-> kind, msg |-> msg, claims |-> Garbage]

\* jwt.decode(token, key, options): parse, then the signature unless switched
\* off, then the claims in the library's order: exp (unless switched off)
\* before sub, which must be a string
JwtDecode(token, key, verify_signature, verify_exp, nowSec) ==
    IF ~token.jws THEN JwtErr("JWTError", "Not enough segments")
    ELSE IF verify_signature /\ token.key # key
    THEN JwtErr("JWTError", "Signature verification failed.")
    ELSE IF verify_exp /\ token.exp < nowSec
    THEN JwtErr("ExpiredSignatureError", "Signature has expired.")
    ELSE IF token.sub.t = "int"
    THEN JwtErr("JWTClaimsError", "Subject must be a string.")
    ELSE JwtOk(token)

----------------------------------------------------------------------------
(* Token Issuer, services/auth.py lines 66-122 *)

\* random.randint(1, 999) / 1000.0 seconds: a positive part of a second
Jitter == 1..(TicksPerSec - 1)

\* create_access_token that fills in type, exp and iat only where the
\* caller's dict has none (setdefault in place of update)
create_access_token_setdefault(data, expires_delta, current_time, random_milliseconds) ==
    LET to_encode == [data EXCEPT !.sub = PyStr(@)]
        expire == IF expires_delta # 0
                  THEN current_time + expires_delta + random_milliseconds
                  ELSE current_time + Minutes(ACCESS_TOKEN_EXPIRE_MINUTES)
                       + random_milliseconds
    IN  JwtEncode([to_encode EXCEPT
                      !.exp = IF @ = NoTime THEN expire ELSE @,
                      !.type = IF @ = NoType THEN "access" ELSE @,
                      !.iat = IF @ = NoTime THEN current_time ELSE @],
                  SECRET_KEY)

\* expires_delta = 0 stands for None (and for the falsy timedelta(0))
create_access_token(data, expires_delta, current_time, random_milliseconds) ==
    LET to_encode == [data EXCEPT !.sub = PyStr(@)]
        expire == IF expires_delta # 0
                  THEN current_time + expires_delta + random_milliseconds
                  ELSE current_time + Minutes(ACCESS_TOKEN_EXPIRE_MINUTES)
                       + random_milliseconds
    IN  JwtEncode([to_encode EXCEPT !.exp = expire, !.type = "access",
                                    !.iat = current_time], SECRET_KEY)

\* create_refresh_token that adds no random part to the expiry
create_refresh_token_no_jitter(data, current_time, random_milliseconds) ==
    LET to_encode == [data EXCEPT !.sub = PyStr(@)]
        expire == current_time + Days(REFRESH_TOKEN_EXPIRE_DAYS)
    IN  JwtEncode([to_encode EXCEPT !.exp = expire, !.type = "refresh",
                                    !.iat = current_time], SECRET_KEY)

create_refresh_token(data, current_time, random_milliseconds) ==
    LET to_encode == [data EXCEPT !.sub = PyStr(@)]
        expire == current_time + Days(REFRESH_TOKEN_EXPIRE_DAYS)
                  + random_milliseconds
    IN  JwtEncode([to_encode EXCEPT !.exp = expire, !.type = "refresh",
                                    !.iat = current_time], SECRET_KEY)

----------------------------------------------------------------------------
(* decode_token, services/auth.py lines 124-217 *)

Raise(status, detail) ==
    [ok |-> FALSE, status |-> status, detail |-> detail, payload |-> Garbage]
Return(payload) ==
    [ok |-> TRUE, status |-> 200, detail |-> "", payload |-> payload]

InvalidTokenType(token_type) ==
    IF token_type = "access"
    THEN "Invalid token type. Expected access token."
    ELSE "Invalid token type. Expected refresh token."

\* the first decode, lines 139-159: signature and expiry switched off; a
\* library error is swallowed (pass), a type mismatch raises at once
PreCheckRaises(token, token_type, nowSec) ==
    LET unverified == JwtDecode(token, SECRET_KEY, FALSE, FALSE, nowSec)
    IN  /\ unverified.err = "none"
        /\ token_type # NoType
        /\ unverified.claims.type # token_type

\* FullDecode with the handlers in the wrong order: "except JWTError"
\* first, which catches its subclass ExpiredSignatureError too
FullDecodeExpiredAsInvalid(token, token_type, nowSec) ==
    LET full == JwtDecode(token, SECRET_KEY, TRUE, TRUE, nowSec)
        payload == [full.claims EXCEPT !.sub = PyStr(@)]
    IN  IF full.err # "none"
        THEN Raise(401, "Could not validate credentials")
        ELSE IF token_type # NoType /\ payload.type # token_type
        THEN Raise(401, InvalidTokenType(token_type))
        ELSE Return(payload)

\* the second decode and what follows it, lines 161-217
FullDecode(token, token_type, nowSec) ==
    LET full == JwtDecode(token, SECRET_KEY, TRUE, TRUE, nowSec)
        payload == [full.claims EXCEPT !.sub = PyStr(@)]
    IN  CASE full.err = "ExpiredSignatureError" ->
                Raise(401, "Token has expired")
          [] full.err = "JWTClaimsError" ->
                \* "Subject" in str(e) holds for the one claims error modelled
                IF token_type = "access"
                THEN Raise(401, "User not found")
                ELSE Raise(401, "Invalid token claims")
          [] full.err = "JWTError" ->
                Raise(401, "Could not validate credentials")
          [] OTHER ->
                IF token_type # NoType /\ payload.type # token_type
                THEN Raise(401, InvalidTokenType(token_type))
                ELSE Return(payload)

\* decode_token trusting the first decode: the unverified payload is
\* returned when the pre-check finds nothing wrong
decode_token_unverified(token, token_type, nowSec) ==
    LET unverified == JwtDecode(token, SECRET_KEY, FALSE, FALSE, nowSec)
    IN  IF PreCheckRaises(token, token_type, nowSec)
        THEN Raise(401, InvalidTokenType(token_type))
        ELSE IF unverified.err = "none"
        THEN Return([unverified.claims EXCEPT !.sub = PyStr(@)])
        ELSE FullDecode(token, token_type, nowSec)

\* decode_token in a process that remembers a failure: after a request
\* that was turned away every token is turned away
decode_token_after_failure(token, token_type, nowSec) ==
    IF SECRET_KEY = NoKey
    THEN Raise(500, "Authentication system configuration error")
    ELSE IF resp.op \in {"me", "refresh"} /\ resp.status = 401
    THEN Raise(401, "Could not validate credentials")
    ELSE IF PreCheckRaises(token, token_type, nowSec)
    THEN Raise(401, InvalidTokenType(token_type))
    ELSE FullDecode(token, token_type, nowSec)

decode_token(token, token_type, nowSec) ==
    IF SECRET_KEY = NoKey
    THEN Raise(500, "Authentication system configuration error")
    ELSE IF PreCheckRaises(token, token_type, nowSec)
    THEN Raise(401, InvalidTokenType(token_type))
    ELSE FullDecode(token, token_type, nowSec)

----------------------------------------------------------------------------
(* The users table, models/user.py, as the handlers query it *)

NoUser == 0

\* FindById with the filter left out: the first row, whatever the id
FindFirstRow(table, user_id) ==
    IF Len(table) > 0 THEN 1 ELSE NoUser

\* db.query(User).filter(User.id == user_id).first(); a string is compared
\* by its numeric value (SQLite, the configured default), no row otherwise
FindById(table, user_id) ==
    IF PyInt(user_id) \in 1..Len(table) THEN PyInt(user_id) ELSE NoUser

\* db.query(User).filter(User.username == username).first()
FindByUsername(table, username) ==
    IF \E i \in 1..Len(table) : table[i].username = username
    THEN CHOOSE i \in 1..Len(table) : table[i].username = username
    ELSE NoUser

\* db.query(User).filter(User.email == email).first()
FindByEmail(table, email) ==
    IF \E i \in 1..Len(table) : table[i].email = email
    THEN CHOOSE i \in 1..Len(table) : table[i].email = email
    ELSE NoUser

----------------------------------------------------------------------------
(* Identity Resolver, services/auth.py lines 219-290 *)

Deny(status, detail) ==
    [status |-> status, detail |-> detail, user |-> NoUser, lookups |-> 0]

\* a result reached after one more db.query(User) of the resolver
Looked(result) == [result EXCEPT !.lookups = @ + 1]

Grant(user) == Looked([status |-> 200, detail |-> "", user |-> user,
                       lookups |-> 0])

\* the lookup of lines 265-281: the 401 raised for a missing row is raised
\* inside the try block and caught by its own "except Exception"
LookupUser(table, user_id) ==
    IF db = "down" \/ FindById(table, IntVal(user_id)) = NoUser
    THEN Looked(Deny(500, "Database error"))
    ELSE Grant(FindById(table, IntVal(user_id)))

\* get_current_user without the is_active check of lines 283-288
get_current_user_skip_active(token, table, nowSec) ==
    IF token = NoToken THEN Deny(401, "Not authenticated")
    ELSE LET decoded == decode_token(token, "access", nowSec)
             sub == decoded.payload.sub
         IN  IF ~decoded.ok THEN Deny(decoded.status, decoded.detail)
             ELSE IF sub = NoSub
             THEN Deny(401, "Invalid token content: missing user identifier")
             ELSE IF PyInt(sub) = 0
             THEN Deny(401, "Invalid user identifier format")
             ELSE LookupUser(table, PyInt(sub))

\* get_current_user behind OAuth2PasswordBearer(auto_error=False): a
\* request without a bearer token reaches decode_token
get_current_user_optional_bearer(token, table, nowSec) ==
    LET decoded == decode_token(token, "access", nowSec)
        sub == decoded.payload.sub
    IN  IF ~decoded.ok THEN Deny(decoded.status, decoded.detail)
        ELSE IF sub = NoSub
        THEN Deny(401, "Invalid token content: missing user identifier")
        ELSE IF PyInt(sub) = 0
        THEN Deny(401, "Invalid user identifier format")
        ELSE LET found == LookupUser(table, PyInt(sub))
             IN  IF found.user = NoUser THEN found
                 ELSE IF ~table[found.user].is_active
                 THEN Looked(Deny(401, "Inactive user"))
                 ELSE Grant(found.user)

\* get_current_user without the subject checks of lines 234-252: whatever
\* the payload holds under "sub" goes to the query
get_current_user_unchecked_sub(token, table, nowSec) ==
    IF token = NoToken THEN Deny(401, "Not authenticated")
    ELSE LET decoded == decode_token(token, "access", nowSec)
             sub == decoded.payload.sub
         IN  IF ~decoded.ok THEN Deny(decoded.status, decoded.detail)
             ELSE LET found == LookupUser(table, PyInt(sub))
                  IN  IF found.user = NoUser THEN found
                      ELSE IF ~table[found.user].is_active
                      THEN Looked(Deny(401, "Inactive user"))
                      ELSE Grant(found.user)

\* get_current_user that asks the database a second time when the first
\* lookup found nobody
get_current_user_retry(token, table, nowSec) ==
    IF token = NoToken THEN Deny(401, "Not authenticated")
    ELSE LET decoded == decode_token(token, "access", nowSec)
             sub == decoded.payload.sub
         IN  IF ~decoded.ok THEN Deny(decoded.status, decoded.detail)
             ELSE IF sub = NoSub
             THEN Deny(401, "Invalid token content: missing user identifier")
             ELSE IF PyInt(sub) = 0
             THEN Deny(401, "Invalid user identifier format")
             ELSE LET found == LookupUser(table, PyInt(sub))
                  IN  IF found.user = NoUser THEN Looked(found)
                      ELSE IF ~table[found.user].is_active
                      THEN Looked(Deny(401, "Inactive user"))
                      ELSE Grant(found.user)

\* the bearer dependency (oauth2_scheme, line 28) answers a request without
\* a bearer token itself, with 401 "Not authenticated"
get_current_user(token, table, nowSec) ==
    IF token = NoToken THEN Deny(401, "Not authenticated")
    ELSE LET decoded == decode_token(token, "access", nowSec)
             sub == decoded.payload.sub
         IN  IF ~decoded.ok THEN Deny(decoded.status, decoded.detail)
             ELSE IF sub = NoSub
             THEN Deny(401, "Invalid token content: missing user identifier")
             ELSE IF PyInt(sub) = 0
             THEN Deny(401, "Invalid user identifier format")
             ELSE LET found == LookupUser(table, PyInt(sub))
                  IN  IF found.user = NoUser THEN found
                      ELSE IF ~table[found.user].is_active
                      THEN Looked(Deny(401, "Inactive user"))
                      ELSE Grant(found.user)

\* get_current_active_user, lines 292-296, behind get_current_user
get_current_active_user(token, table, nowSec) ==
    LET current_user == get_current_user(token, table, nowSec)
    IN  IF current_user.user = NoUser THEN current_user
        ELSE IF ~table[current_user.user].is_active
        THEN Looked(Deny(400, "Inactive user"))
        ELSE current_user

----------------------------------------------------------------------------
(* Credential Hasher, services/auth.py lines 30-64 *)

Salts == {"salt-a"}

\* a password the primitive refuses: bcrypt.hashpw raises ValueError
Unhashable == "S3cret123-and-longer-than-the-primitive-takes"

\* a stored string that is no bcrypt hash
MalformedHash ==
    [salt |-> "none", digest |-> [salt |-> "none", password |-> ""]]

\* two passwords of more than 72 bytes that differ only after the 72nd
LongA == "S3cret123-seventy-two-bytes-and-then-A"
LongB == "S3cret123-seventy-two-bytes-and-then-B"

\* the bytes of a password that bcrypt reads: the first 72.  (Which of the
\* two a password over 72 bytes meets, being cut short or being refused as
\* Unhashable is, depends on the bcrypt release installed.)
First72(password) ==
    IF password \in {LongA, LongB} THEN "S3cret123-seventy-two-bytes"
    ELSE password

\* bcrypt.hashpw(password, salt): the salt is kept in the hash string
BcryptHashpw(password, salt) ==
    [salt |-> salt,
     digest |-> [salt |-> salt, password |-> First72(password)]]

HashpwRaises(password) == password = Unhashable

\* bcrypt.checkpw raises ValueError ("Invalid salt") on a hash it cannot read
CheckpwRaises(plain_password, hashed_password) ==
    hashed_password.salt \notin Salts

\* the hash, or the HTTPException of lines 59-64
get_password_hash(password, salt) ==
    IF HashpwRaises(password)
    THEN [ok |-> FALSE, status |-> 500,
          detail |-> "Password processing error", hash |-> MalformedHash]
    ELSE [ok |-> TRUE, status |-> 200, detail |-> "",
          hash |-> BcryptHashpw(password, salt)]

\* verify_password whose handler answers True
verify_password_error_is_match(plain_password, hashed_password) ==
    IF CheckpwRaises(plain_password, hashed_password)
    THEN TRUE
    ELSE BcryptHashpw(plain_password, hashed_password.salt) = hashed_password

\* "except Exception: return False", lines 42-44
verify_password(plain_password, hashed_password) ==
    IF CheckpwRaises(plain_password, hashed_password)
    THEN FALSE
    ELSE BcryptHashpw(plain_password, hashed_password.salt) = hashed_password

----------------------------------------------------------------------------
(* Requests and responses *)

Usernames == {"alice", "bob"}
Passwords == {"S3cret123", "wrong"}

\* the registration forms the clients send (UserCreate)
RegForms ==
    {[username |-> "alice", email |-> "alice@x.org", password |-> "S3cret123"],
     [username |-> "bob",   email |-> "bob@x.org",   password |-> "S3cret123"],
     [username |-> "bob",   email |-> "alice@x.org", password |-> "S3cret123"]}

\* the path and body parameters of a request, "" and 0 where it has none
NoArgs == [email |-> "", project_id |-> 0, request_id |-> 0, status |-> ""]

Response(op, token, status, detail, user, decoded, access, refresh) ==
    [op |-> op, at |-> NowSec, token |-> token, status |-> status,
     detail |-> detail, user |-> user, decoded |-> decoded,
     access |-> access, refresh |-> refresh,
     username |-> "", password |-> "", lookups |-> 0, data |-> NoData,
     args |-> NoArgs,
     replay |-> /\ op = "refresh"
                /\ resp.op = "refresh" /\ resp.status = 200
                /\ resp.token = token]

Failure(op, token, status, detail, decoded) ==
    Response(op, token, status, detail, NoUser, decoded, NoToken, NoToken)

NoResponse ==
    [op |-> "none", at |-> 0, token |-> NoToken, status |-> 0, detail |-> "",
     user |-> NoUser, decoded |-> FALSE, access |-> NoToken,
     refresh |-> NoToken, username |-> "", password |-> "",
     lookups |-> 0, data |-> NoData, args |-> NoArgs, replay |-> FALSE]

\* the issuing history: the pair, the handler and the clock reading that
\* made it; serial tells one issuing from the next when both give the same
\* pair
Issued(via, access, refresh) ==
    [serial |-> 1 - last.serial, via |-> via, at |-> now,
     access |-> access, refresh |-> refresh]

NoIssue ==
    [serial |-> 0, via |-> "none", at |-> 0, access |-> NoToken,
     refresh |-> NoToken]

Init ==
    /\ now = 0
    /\ users = <<>>
    /\ last = NoIssue
    /\ resp = NoResponse
    /\ SECRET_KEY = JwtSecret
    /\ db = "up"
    /\ projects = <<>>
    /\ requests = {}
    /\ inflight = <<>>

\* time passes
Tick ==
    /\ now < MaxNow
    /\ now' = now + 1
    /\ UNCHANGED <<users, last, resp, SECRET_KEY, others>>

\* register whose handlers answer every exception alike: the hasher's
\* HTTPException falls to "except Exception"
register_one_handler(user_data, salt) ==
    LET hashed == get_password_hash(user_data.password, salt)
    IN  IF db = "down"
        THEN /\ resp' = Failure("register", NoToken, 500,
                                "Failed to register. Please try again.", FALSE)
             /\ UNCHANGED users
        ELSE IF FindByUsername(users, user_data.username) # NoUser
        THEN /\ resp' = Failure("register", NoToken, 400,
                                "Username already registered", FALSE)
             /\ UNCHANGED users
        ELSE IF FindByEmail(users, user_data.email) # NoUser
        THEN /\ resp' = Failure("register", NoToken, 400,
                                "Email already registered", FALSE)
             /\ UNCHANGED users
        ELSE IF ~hashed.ok
        THEN /\ resp' = Failure("register", NoToken, 500,
                                "Failed to register. Please try again.", FALSE)
             /\ UNCHANGED users
        ELSE /\ users' = Append(users,
                    [username |-> user_data.username,
                     email |-> user_data.email,
                     hashed_password |-> hashed.hash,
                     is_active |-> TRUE])
             /\ resp' = Response("register", NoToken, 201, "", Len(users) + 1,
                                 FALSE, NoToken, NoToken)

\* POST /register, routers/auth.py lines 37-122
register(user_data, salt) ==
    LET hashed == get_password_hash(user_data.password, salt)
    IN  IF db = "down"
        THEN /\ resp' = Failure("register", NoToken, 500,
                                "Failed to register. Please try again.", FALSE)
             /\ UNCHANGED users
        ELSE IF FindByUsername(users, user_data.username) # NoUser
        THEN /\ resp' = Failure("register", NoToken, 400,
                                "Username already registered", FALSE)
             /\ UNCHANGED users
        ELSE IF FindByEmail(users, user_data.email) # NoUser
        THEN /\ resp' = Failure("register", NoToken, 400,
                                "Email already registered", FALSE)
             /\ UNCHANGED users
        ELSE IF ~hashed.ok
        THEN /\ resp' = Failure("register", NoToken, hashed.status,
                                hashed.detail, FALSE)
             /\ UNCHANGED users
        ELSE /\ users' = Append(users,
                    [username |-> user_data.username,
                     email |-> user_data.email,
                     hashed_password |-> hashed.hash,
                     is_active |-> TRUE])
             /\ resp' = Response("register", NoToken, 201, "", Len(users) + 1,
                                 FALSE, NoToken, NoToken)

RegisterWith(forms) ==
    \E user_data \in forms, salt \in Salts :
        /\ Len(users) < MaxUsers
        /\ register(user_data, salt)
        /\ UNCHANGED <<now, last, SECRET_KEY, others>>

Register == RegisterWith(RegForms)

\* the persistence layer switches a user's active flag (tests/test_auth.py
\* lines 326-327)
Deactivate ==
    \E id \in 1..Len(users) :
        /\ users[id].is_active
        /\ users' = [users EXCEPT ![id].is_active = FALSE]
        /\ UNCHANGED <<now, last, resp, SECRET_KEY, others>>

\* login without the is_active check of lines 153-160
login_skip_active(username, password, jitterA, jitterR) ==
    LET user == FindByUsername(users, username)
        token_data == Data(IntVal(user), NoNonce)
        access_token_expires == Minutes(ACCESS_TOKEN_EXPIRE_MINUTES)
        access_token == create_access_token(token_data, access_token_expires,
                                            now, jitterA)
        refresh_token == create_refresh_token(token_data, now, jitterR)
        out ==
            IF db = "down"
            THEN [resp |-> Failure("login", NoToken, 500,
                                   "An unexpected error occurred", FALSE),
                  issued |-> <<>>]
            ELSE IF user = NoUser
            THEN [resp |-> Failure("login", NoToken, 401,
                                   "Incorrect username or password", FALSE),
                  issued |-> <<>>]
            ELSE IF ~verify_password(password, users[user].hashed_password)
            THEN [resp |-> Failure("login", NoToken, 401,
                                   "Incorrect username or password", FALSE),
                  issued |-> <<>>]
            ELSE IF JwtEncodeRaises(SECRET_KEY)
            THEN [resp |-> Failure("login", NoToken, 500,
                                   "Authentication service error", FALSE),
                  issued |-> <<>>]
            ELSE [resp |-> Response("login", NoToken, 200, "", user, FALSE,
                                    access_token, refresh_token),
                  issued |-> <<Issued("login", access_token, refresh_token)>>]
    IN  [out EXCEPT !.resp.username = username, !.resp.password = password]

\* login that tells an unknown username from a wrong password
login_names_unknown_user(username, password, jitterA, jitterR) ==
    LET user == FindByUsername(users, username)
        token_data == Data(IntVal(user), NoNonce)
        access_token_expires == Minutes(ACCESS_TOKEN_EXPIRE_MINUTES)
        access_token == create_access_token(token_data, access_token_expires,
                                            now, jitterA)
        refresh_token == create_refresh_token(token_data, now, jitterR)
        out ==
            IF db = "down"
            THEN [resp |-> Failure("login", NoToken, 500,
                                   "An unexpected error occurred", FALSE),
                  issued |-> <<>>]
            ELSE IF user = NoUser
            THEN [resp |-> Failure("login", NoToken, 404,
                                   "User not found", FALSE),
                  issued |-> <<>>]
            ELSE IF ~verify_password(password, users[user].hashed_password)
            THEN [resp |-> Failure("login", NoToken, 401,
                                   "Incorrect username or password", FALSE),
                  issued |-> <<>>]
            ELSE IF ~users[user].is_active
            THEN [resp |-> Failure("login", NoToken, 401,
                                   "Account is inactive", FALSE),
                  issued |-> <<>>]
            ELSE IF JwtEncodeRaises(SECRET_KEY)
            THEN [resp |-> Failure("login", NoToken, 500,
                                   "Authentication service error", FALSE),
                  issued |-> <<>>]
            ELSE [resp |-> Response("login", NoToken, 200, "", user, FALSE,
                                    access_token, refresh_token),
                  issued |-> <<Issued("login", access_token, refresh_token)>>]
    IN  [out EXCEPT !.resp.username = username, !.resp.password = password]

\* POST /login, routers/auth.py lines 125-194; the response remembers the
\* credentials of the request
login(username, password, jitterA, jitterR) ==
    LET user == FindByUsername(users, username)
        token_data == Data(IntVal(user), NoNonce)
        access_token_expires == Minutes(ACCESS_TOKEN_EXPIRE_MINUTES)
        access_token == create_access_token(token_data, access_token_expires,
                                            now, jitterA)
        refresh_token == create_refresh_token(token_data, now, jitterR)
        out ==
            IF db = "down"
            THEN [resp |-> Failure("login", NoToken, 500,
                                   "An unexpected error occurred", FALSE),
                  issued |-> <<>>]
            ELSE IF user = NoUser
            THEN [resp |-> Failure("login", NoToken, 401,
                                   "Incorrect username or password", FALSE),
                  issued |-> <<>>]
            ELSE IF ~verify_password(password, users[user].hashed_password)
            THEN [resp |-> Failure("login", NoToken, 401,
                                   "Incorrect username or password", FALSE),
                  issued |-> <<>>]
            ELSE IF ~users[user].is_active
            THEN [resp |-> Failure("login", NoToken, 401,
                                   "Account is inactive", FALSE),
                  issued |-> <<>>]
            ELSE IF JwtEncodeRaises(SECRET_KEY)
            THEN [resp |-> Failure("login", NoToken, 500,
                                   "Authentication service error", FALSE),
                  issued |-> <<>>]
            ELSE [resp |-> Response("login", NoToken, 200, "", user, FALSE,
                                    access_token, refresh_token),
                  issued |-> <<Issued("login", access_token, refresh_token)>>]
    IN  [out EXCEPT !.resp.username = username, !.resp.password = password]

\* str(e) of the exceptions that reach the last handler of refresh_token:
\* what a query raises when the database cannot be reached, and what
\* jwt.encode raises without a key
OperationalError ==
    "(sqlite3.OperationalError) unable to open database file [SQL: SELECT users.id AS users_id, users.username AS users_username, users.email AS users_email, users.hashed_password AS users_hashed_password FROM users WHERE users.id = ?]"
KeyError == "Expecting a string- or bytes-formatted key."

\* f"Invalid token: {str(e)}", routers/auth.py line 294
InvalidTokenWith(e) == "Invalid token: " \o e

\* random.randint(1000, 9999), routers/auth.py line 273
NonceRandoms == {1000, 9999}

\* random.uniform(0.1, 0.9) minutes, routers/auth.py line 278
MinutesOffset ==
    {k \in 1..(Minutes(1) - 1) : 10 * k >= Minutes(1) /\ 10 * k <= 9 * Minutes(1)}

\* refresh_validate with single-use refresh tokens: the token of the
\* preceding successful refresh is turned away
refresh_validate_single_use(token) ==
    LET decoded == decode_token(token, "refresh", NowSec)
        user_id == decoded.payload.sub
        user == FindById(users, user_id)
    IN  IF token = NoToken
        THEN [status |-> 400, detail |-> "Token is required",
              decoded |-> FALSE, user |-> NoUser]
        ELSE IF ~decoded.ok
        THEN [status |-> decoded.status, detail |-> decoded.detail,
              decoded |-> FALSE, user |-> NoUser]
        ELSE IF resp.op = "refresh" /\ resp.status = 200 /\ resp.token = token
        THEN [status |-> 401, detail |-> "Token has been revoked",
              decoded |-> TRUE, user |-> NoUser]
        ELSE IF db = "down"
        THEN [status |-> 401, detail |-> InvalidTokenWith(OperationalError),
              decoded |-> TRUE, user |-> NoUser]
        ELSE IF user_id = NoSub \/ user = NoUser
        THEN [status |-> 401, detail |-> "User not found",
              decoded |-> TRUE, user |-> NoUser]
        ELSE IF ~users[user].is_active
        THEN [status |-> 401, detail |-> "User not found or inactive",
              decoded |-> TRUE, user |-> NoUser]
        ELSE [status |-> 200, detail |-> "", decoded |-> TRUE, user |-> user]

\* POST /refresh up to the user lookup, routers/auth.py lines 205-260: the
\* failure it raises, or status 200 when the request may go on to issue
refresh_validate(token) ==
    LET decoded == decode_token(token, "refresh", NowSec)
        user_id == decoded.payload.sub
        user == FindById(users, user_id)
    IN  IF token = NoToken
        THEN [status |-> 400, detail |-> "Token is required",
              decoded |-> FALSE, user |-> NoUser]
        ELSE IF ~decoded.ok
        THEN [status |-> decoded.status, detail |-> decoded.detail,
              decoded |-> FALSE, user |-> NoUser]
        ELSE IF user_id = NoSub
        THEN [status |-> 401, detail |-> "Invalid token",
              decoded |-> TRUE, user |-> NoUser]
        ELSE IF db = "down"
        THEN [status |-> 401, detail |-> InvalidTokenWith(OperationalError),
              decoded |-> TRUE, user |-> NoUser]
        ELSE IF user = NoUser
        THEN [status |-> 401, detail |-> "User not found",
              decoded |-> TRUE, user |-> NoUser]
        ELSE IF ~users[user].is_active
        THEN [status |-> 401, detail |-> "User not found or inactive",
              decoded |-> TRUE, user |-> NoUser]
        ELSE [status |-> 200, detail |-> "", decoded |-> TRUE, user |-> user]

\* POST /refresh, routers/auth.py lines 197-296
refresh_token(token, nonce_random, random_minutes_offset, jitterA, jitterR) ==
    LET checked == refresh_validate(token)
        token_data == Data(IntVal(checked.user),
                           [at |-> now, r |-> nonce_random])
        access_token_expires ==
            Minutes(ACCESS_TOKEN_EXPIRE_MINUTES) + random_minutes_offset
        access_token == create_access_token(token_data, access_token_expires,
                                            now, jitterA)
        new_refresh == create_refresh_token(token_data, now, jitterR)
    IN  IF checked.status # 200
        THEN [resp |-> Failure("refresh", token, checked.status,
                               checked.detail, checked.decoded),
              issued |-> <<>>]
        ELSE IF JwtEncodeRaises(SECRET_KEY)
        THEN [resp |-> Failure("refresh", token, 401,
                               InvalidTokenWith(KeyError), TRUE),
              issued |-> <<>>]
        ELSE [resp |-> Response("refresh", token, 200, "", checked.user, TRUE,
                                access_token, new_refresh),
              issued |-> <<Issued("refresh", access_token, new_refresh)>>]

\* GET /me, routers/auth.py lines 299-313, behind get_current_user
read_users_me(token) ==
    LET current_user == get_current_user(token, users, NowSec)
    IN  [Response("me", token, current_user.status, current_user.detail,
                 current_user.user,
                 token # NoToken /\ decode_token(token, "access", NowSec).ok,
                 NoToken, NoToken)
            EXCEPT !.lookups = current_user.lookups]

\* GET /users/, routers/users.py lines 14-44, behind get_current_active_user
get_users(token) ==
    LET current_user == get_current_active_user(token, users, NowSec)
    IN  [Response("users", token, current_user.status, current_user.detail,
                 current_user.user,
                 token # NoToken /\ decode_token(token, "access", NowSec).ok,
                 NoToken, NoToken)
            EXCEPT !.lookups = current_user.lookups]

----------------------------------------------------------------------------
(* The tokens a client can present *)

\* the tokens a client of the service holds: the pair issued last and the
\* token it presented last
HeldTokens == {last.access, last.refresh, resp.token} \ {NoToken}

\* subjects of tokens made outside the handlers: a stored id, an id never
\* stored, the raw integers the tests encode, no subject, a non-number
CraftedSubs ==
    {StrVal(ToString(i)) : i \in Ids} \cup
    {IntVal(1), IntVal(MaxUsers + 1), NoSub, StrVal("abc")}

\* tokens made outside the handlers, under the deployment's secret (the
\* tests' jwt.encode with SECRET_KEY, direct calls of the issuer, tokens
\* issued long ago) or under another key
CraftedTokens ==
    {Garbage} \cup
    [jws : {TRUE}, key : {JwtSecret, OtherKey}, sub : CraftedSubs,
     type : {"access", "refresh"}, nonce : {NoNonce}, iat : {NoTime},
     exp : {0, MaxSec + 1}]

----------------------------------------------------------------------------
(* The service: requests made with the tokens the service handed out *)

\* the random draws of one issuing request: the nonce's random part, the
\* minutes offset and the two jitters; a request that fails draws nothing
Draws ==
    [nonce_random : NonceRandoms, random_minutes_offset : MinutesOffset,
     jitterA : Jitter, jitterR : Jitter]

NoDraw == CHOOSE d \in Draws : TRUE

LoginWith(passwords) ==
    \E username \in Usernames, password \in passwords :
        \E d \in IF login(username, password, 1, 1).issued = <<>>
                 THEN {NoDraw} ELSE Draws :
            LET out == login(username, password, d.jitterA, d.jitterR)
            IN  /\ resp' = out.resp
                /\ last' = IF out.issued = <<>> THEN last
                           ELSE out.issued[1]
                /\ UNCHANGED <<now, users, SECRET_KEY, others>>

Login == LoginWith(Passwords)

RefreshWith(tokens, keep) ==
    \E token \in tokens :
        \E d \in IF refresh_token(token, 1000, 1, 1, 1).issued = <<>>
                 THEN {NoDraw} ELSE Draws :
            LET out == refresh_token(token, d.nonce_random,
                                     d.random_minutes_offset,
                                     d.jitterA, d.jitterR)
            IN  /\ resp' = out.resp
                /\ last' = IF out.issued = <<>> \/ ~keep THEN last
                           ELSE out.issued[1]
                /\ UNCHANGED <<now, users, SECRET_KEY, others>>

Refresh == RefreshWith(HeldTokens \cup {Garbage, NoToken}, TRUE)

Me ==
    \E token \in HeldTokens \cup {Garbage, NoToken} :
        /\ resp' = read_users_me(token)
        /\ UNCHANGED <<now, users, last, SECRET_KEY, others>>

Next == Tick \/ Register \/ Deactivate \/ Login \/ Refresh \/ Me

Spec == Init /\ [][Next]_vars

----------------------------------------------------------------------------
(* The decoder on its own: requests made with tokens from anywhere; the    *)
(* issuing history is not kept                                             *)

RefreshAny == RefreshWith(CraftedTokens \cup {NoToken}, FALSE)

MeAny ==
    \E token \in CraftedTokens \cup {NoToken} :
        /\ resp' = read_users_me(token)
        /\ UNCHANGED <<now, users, last, SECRET_KEY, others>>

UsersAny ==
    \E token \in CraftedTokens \cup {NoToken} :
        /\ resp' = get_users(token)
        /\ UNCHANGED <<now, users, last, SECRET_KEY, others>>

NextDecode == Tick \/ Register \/ Deactivate \/ RefreshAny \/ MeAny \/ UsersAny

SpecDecode == Init /\ [][NextDecode]_vars

----------------------------------------------------------------------------
(* Accounts: registration with any password, stored hashes that have gone  *)
(* bad, and login                                                          *)

\* the registration forms, one whose password the primitive refuses and
\* one whose password is longer than the primitive reads
AnyRegForms ==
    RegForms \cup
    {[username |-> "bob", email |-> "bob@x.org", password |-> Unhashable],
     [username |-> "bob", email |-> "bob@x.org", password |-> LongA]}

AnyPasswords == Passwords \cup {LongA, LongB}

RegisterAny == RegisterWith(AnyRegForms)

\* the persistence layer holds a hashed_password that is no bcrypt hash
\* (a row written by other means, a truncated or damaged column)
CorruptHash ==
    \E id \in 1..Len(users) :
        /\ users[id].hashed_password # MalformedHash
        /\ users' = [users EXCEPT ![id].hashed_password = MalformedHash]
        /\ UNCHANGED <<now, last, resp, SECRET_KEY, others>>

LoginAny == LoginWith(AnyPasswords)

NextAccounts == Tick \/ RegisterAny \/ CorruptHash \/ Deactivate \/ LoginAny

SpecAccounts == Init /\ [][NextAccounts]_vars

----------------------------------------------------------------------------
(* A deployment whose environment has no JWT_SECRET: the module is imported *)
(* with SECRET_KEY = None and the application starts all the same          *)

InitNoSecret ==
    /\ now = 0
    /\ users = <<>>
    /\ last = NoIssue
    /\ resp = NoResponse
    /\ SECRET_KEY = NoKey
    /\ db = "up"
    /\ projects = <<>>
    /\ requests = {}
    /\ inflight = <<>>

NextNoSecret ==
    Tick \/ Register \/ Deactivate \/ Login \/ RefreshAny \/ MeAny \/ UsersAny

SpecNoSecret == InitNoSecret /\ [][NextNoSecret]_vars

----------------------------------------------------------------------------
(* The service while the database comes and goes: a query raises           *)
(* sqlalchemy.exc.OperationalError while it is down                        *)

Outage ==
    /\ db = "up"
    /\ db' = "down"
    /\ UNCHANGED <<now, users, last, resp, SECRET_KEY, projects, requests,
                   inflight>>

Recover ==
    /\ db = "down"
    /\ db' = "up"
    /\ UNCHANGED <<now, users, last, resp, SECRET_KEY, projects, requests,
                   inflight>>

NextOutage == Outage \/ Recover \/ Register \/ Login \/ Refresh \/ Me

SpecOutage == Init /\ [][NextOutage]_vars

----------------------------------------------------------------------------
(* Projects and collaboration requests, routers/projects.py and            *)
(* routers/collaborations.py, behind get_current_active_user               *)

MaxProjects == 1
MaxRequests == 2

\* RequestStatus, models/collaboration.py lines 8-11
PENDING == "pending"
ACCEPTED == "accepted"
REJECTED == "rejected"

\* RequestStatusEnum, the values a CollaborationRequestUpdate may hold
RequestStatusEnum == {PENDING, ACCEPTED, REJECTED}

\* the access token a login of this user returns at this moment
BearerOf(id) ==
    create_access_token(Data(IntVal(id), NoNonce),
                        Minutes(ACCESS_TOKEN_EXPIRE_MINUTES), now, 1)

\* what the clients of the two routers present
Bearers == {BearerOf(id) : id \in 1..Len(users)} \cup {NoToken}

\* current_user: User = Depends(get_current_active_user): the dependency
\* is resolved once, before the handler
Resolve(token) == {get_current_active_user(token, users, NowSec)}

NoRequest ==
    [id |-> 0, user_id |-> 0, project_id |-> 0, status |-> "",
     responded_at |-> NoTime]

\* db.query(CollaborationRequest).filter(id == request_id).first()
FindRequest(table, request_id) ==
    IF \E r \in table : r.id = request_id
    THEN CHOOSE r \in table : r.id = request_id
    ELSE NoRequest

\* the primary key the database gives the next row
NextRequestId(table) ==
    IF table = {} THEN 1
    ELSE 1 + CHOOSE m \in {r.id : r \in table} :
                 \A r \in table : r.id <= m

\* the answer of a handler of the two routers and the tables it leaves
Answer(op, token, status, detail, user, args, projectsAfter, requestsAfter) ==
    [resp |-> [Response(op, token, status, detail, user, FALSE,
                        NoToken, NoToken)
               EXCEPT !.args = args],
     projects |-> projectsAfter,
     requests |-> requestsAfter]

\* a handler that raised: nothing is written
Raised(op, token, status, detail, args) ==
    Answer(op, token, status, detail, NoUser, args, projects, requests)

\* POST /projects/, routers/projects.py lines 22-56
create_project(token, current_user) ==
    LET op == "create_project"
    IN  IF current_user.user = NoUser
        THEN Raised(op, token, current_user.status, current_user.detail,
                    NoArgs)
        ELSE Answer(op, token, 201, "", current_user.user,
                    [NoArgs EXCEPT !.project_id = Len(projects) + 1],
                    Append(projects,
                           [creator_id |-> current_user.user,
                            is_completed |-> FALSE,
                            is_active |-> TRUE,
                            collaborators |-> {}]),
                    requests)

\* DELETE /projects/{project_id}, routers/projects.py lines 269-295: the
\* row stays, marked inactive
delete_project(token, current_user, project_id) ==
    LET op == "delete_project"
        args == [NoArgs EXCEPT !.project_id = project_id]
    IN  IF current_user.user = NoUser
        THEN Raised(op, token, current_user.status, current_user.detail, args)
        ELSE IF project_id \notin 1..Len(projects)
        THEN Raised(op, token, 404, "Project not found", args)
        ELSE IF projects[project_id].creator_id # current_user.user
        THEN Raised(op, token, 403,
                    "You don't have permission to delete this project", args)
        ELSE Answer(op, token, 204, "", current_user.user, args,
                    [projects EXCEPT ![project_id].is_active = FALSE],
                    requests)

\* POST /projects/{project_id}/collaborators/{user_id}, routers/projects.py
\* lines 298-341
add_collaborator(token, current_user, project_id, user_id) ==
    LET op == "add_collaborator"
        args == [NoArgs EXCEPT !.project_id = project_id]
    IN  IF current_user.user = NoUser
        THEN Raised(op, token, current_user.status, current_user.detail, args)
        ELSE IF project_id \notin 1..Len(projects)
        THEN Raised(op, token, 404, "Project not found", args)
        ELSE IF projects[project_id].creator_id # current_user.user
        THEN Raised(op, token, 403,
                    "Only the project creator can add collaborators", args)
        ELSE IF FindById(users, IntVal(user_id)) = NoUser
        THEN Raised(op, token, 404, "User not found", args)
        ELSE IF user_id \in projects[project_id].collaborators
        THEN Raised(op, token, 400,
                    "User is already a collaborator on this project", args)
        ELSE Answer(op, token, 200, "", current_user.user, args,
                    [projects EXCEPT ![project_id].collaborators =
                                         @ \cup {user_id}],
                    requests)

\* DELETE /projects/{project_id}/collaborators/{user_id},
\* routers/projects.py lines 344-387
remove_collaborator(token, current_user, project_id, user_id) ==
    LET op == "remove_collaborator"
        args == [NoArgs EXCEPT !.project_id = project_id]
    IN  IF current_user.user = NoUser
        THEN Raised(op, token, current_user.status, current_user.detail, args)
        ELSE IF project_id \notin 1..Len(projects)
        THEN Raised(op, token, 404, "Project not found", args)
        ELSE IF /\ projects[project_id].creator_id # current_user.user
                /\ current_user.user # user_id
        THEN Raised(op, token, 403,
                    "You don't have permission to remove this collaborator",
                    args)
        ELSE IF FindById(users, IntVal(user_id)) = NoUser
        THEN Raised(op, token, 404, "User not found", args)
        ELSE IF user_id \notin projects[project_id].collaborators
        THEN Raised(op, token, 400,
                    "User is not a collaborator on this project", args)
        ELSE Answer(op, token, 200, "", current_user.user, args,
                    [projects EXCEPT ![project_id].collaborators =
                                         @ \ {user_id}],
                    requests)

\* the checks of create_collaboration_request, routers/collaborations.py
\* lines 30-77: the exception raised, or status 201 when the row may be
\* written
create_collaboration_request_checks(token, current_user, project_id) ==
    LET project == projects[project_id]
    IN  IF current_user.user = NoUser
        THEN [status |-> current_user.status, detail |-> current_user.detail,
              user |-> NoUser]
        ELSE IF project_id \notin 1..Len(projects)
        THEN [status |-> 404, detail |-> "Project not found", user |-> NoUser]
        ELSE IF ~project.is_active
        THEN [status |-> 400, detail |-> "Project is not active",
              user |-> NoUser]
        ELSE IF project.is_completed
        THEN [status |-> 400, detail |-> "Project is already completed",
              user |-> NoUser]
        ELSE IF current_user.user \in project.collaborators
        THEN [status |-> 400,
              detail |-> "You are already a collaborator on this project",
              user |-> NoUser]
        ELSE IF project.creator_id = current_user.user
        THEN [status |-> 400,
              detail |-> "You cannot request to collaborate on your own project",
              user |-> NoUser]
        ELSE IF \E r \in requests : /\ r.project_id = project_id
                                     /\ r.user_id = current_user.user
                                     /\ r.status = PENDING
        THEN [status |-> 400,
              detail |-> "You already have a pending request for this project",
              user |-> NoUser]
        ELSE [status |-> 201, detail |-> "", user |-> current_user.user]

\* db.add(db_request); db.commit(), lines 79-90
InsertRequest(table, user_id, project_id) ==
    table \cup {[id |-> NextRequestId(table), user_id |-> user_id,
                 project_id |-> project_id, status |-> PENDING,
                 responded_at |-> NoTime]}

\* POST /collaborations/, routers/collaborations.py lines 23-92
create_collaboration_request(token, current_user, project_id) ==
    LET checked == create_collaboration_request_checks(token, current_user,
                                                       project_id)
        op == "create_collaboration_request"
        args == [NoArgs EXCEPT !.project_id = project_id]
    IN  IF checked.status # 201
        THEN Raised(op, token, checked.status, checked.detail, args)
        ELSE Answer(op, token, 201, "", checked.user,
                    [args EXCEPT !.request_id = NextRequestId(requests)],
                    projects,
                    InsertRequest(requests, checked.user, project_id))

\* f"Request is already {collab_request.status}", line 244
AlreadyProcessed(status) == "Request is already " \o status

\* f"Request is already {collab_request.status} and cannot be withdrawn",
\* line 291
CannotBeWithdrawn(status) ==
    "Request is already " \o status \o " and cannot be withdrawn"

\* update_collaboration_request without the creator check of lines 233-238
update_collaboration_request_any_user(token, current_user, request_id, status) ==
    LET collab_request == FindRequest(requests, request_id)
        project_id == collab_request.project_id
        op == "update_collaboration_request"
        args == [NoArgs EXCEPT !.request_id = request_id, !.status = status]
    IN  IF current_user.user = NoUser
        THEN Raised(op, token, current_user.status, current_user.detail, args)
        ELSE IF collab_request = NoRequest
        THEN Raised(op, token, 404, "Collaboration request not found", args)
        ELSE IF project_id \notin 1..Len(projects)
        THEN Raised(op, token, 404, "Project not found", args)
        ELSE IF collab_request.status # PENDING
        THEN Raised(op, token, 400, AlreadyProcessed(collab_request.status),
                    args)
        ELSE Answer(op, token, 200, "", current_user.user,
                    [args EXCEPT !.project_id = project_id],
                    IF /\ status = ACCEPTED
                       /\ FindById(users, IntVal(collab_request.user_id))
                              # NoUser
                    THEN [projects EXCEPT ![project_id].collaborators =
                                              @ \cup {collab_request.user_id}]
                    ELSE projects,
                    (requests \ {collab_request}) \cup
                        {[collab_request EXCEPT !.status = status,
                                                !.responded_at = now]})

\* update_collaboration_request without the PENDING check of lines 240-245
update_collaboration_request_reopen(token, current_user, request_id, status) ==
    LET collab_request == FindRequest(requests, request_id)
        project_id == collab_request.project_id
        op == "update_collaboration_request"
        args == [NoArgs EXCEPT !.request_id = request_id, !.status = status]
    IN  IF current_user.user = NoUser
        THEN Raised(op, token, current_user.status, current_user.detail, args)
        ELSE IF collab_request = NoRequest
        THEN Raised(op, token, 404, "Collaboration request not found", args)
        ELSE IF project_id \notin 1..Len(projects)
        THEN Raised(op, token, 404, "Project not found", args)
        ELSE IF projects[project_id].creator_id # current_user.user
        THEN Raised(op, token, 403,
                    "Only the project creator can accept or reject collaboration requests",
                    args)
        ELSE Answer(op, token, 200, "", current_user.user,
                    [args EXCEPT !.project_id = project_id],
                    IF /\ status = ACCEPTED
                       /\ FindById(users, IntVal(collab_request.user_id))
                              # NoUser
                    THEN [projects EXCEPT ![project_id].collaborators =
                                              @ \cup {collab_request.user_id}]
                    ELSE projects,
                    (requests \ {collab_request}) \cup
                        {[collab_request EXCEPT !.status = status,
                                                !.responded_at = now]})

\* PUT /collaborations/{request_id}, routers/collaborations.py lines
\* 209-262
update_collaboration_request(token, current_user, request_id, status) ==
    LET collab_request == FindRequest(requests, request_id)
        project_id == collab_request.project_id
        op == "update_collaboration_request"
        args == [NoArgs EXCEPT !.request_id = request_id, !.status = status]
    IN  IF current_user.user = NoUser
        THEN Raised(op, token, current_user.status, current_user.detail, args)
        ELSE IF collab_request = NoRequest
        THEN Raised(op, token, 404, "Collaboration request not found", args)
        ELSE IF project_id \notin 1..Len(projects)
        THEN Raised(op, token, 404, "Project not found", args)
        ELSE IF projects[project_id].creator_id # current_user.user
        THEN Raised(op, token, 403,
                    "Only the project creator can accept or reject collaboration requests",
                    args)
        ELSE IF collab_request.status # PENDING
        THEN Raised(op, token, 400, AlreadyProcessed(collab_request.status),
                    args)
        ELSE Answer(op, token, 200, "", current_user.user,
                    [args EXCEPT !.project_id = project_id],
                    IF /\ status = ACCEPTED
                       /\ FindById(users, IntVal(collab_request.user_id))
                              # NoUser
                    THEN [projects EXCEPT ![project_id].collaborators =
                                              @ \cup {collab_request.user_id}]
                    ELSE projects,
                    (requests \ {collab_request}) \cup
                        {[collab_request EXCEPT !.status = status,
                                                !.responded_at = now]})

\* DELETE /collaborations/{request_id}, routers/collaborations.py lines
\* 265-298
delete_collaboration_request(token, current_user, request_id) ==
    LET collab_request == FindRequest(requests, request_id)
        op == "delete_collaboration_request"
        args == [NoArgs EXCEPT !.request_id = request_id]
    IN  IF current_user.user = NoUser
        THEN Raised(op, token, current_user.status, current_user.detail, args)
        ELSE IF collab_request = NoRequest
        THEN Raised(op, token, 404, "Collaboration request not found", args)
        ELSE IF collab_request.user_id # current_user.user
        THEN Raised(op, token, 403,
                    "You don't have permission to withdraw this request", args)
        ELSE IF collab_request.status # PENDING
        THEN Raised(op, token, 400, CannotBeWithdrawn(collab_request.status),
                    args)
        ELSE Answer(op, token, 204, "", current_user.user,
                    [args EXCEPT !.project_id = collab_request.project_id],
                    projects, requests \ {collab_request})

\* a request to one of the two routers is served
Serve(out) ==
    /\ resp' = out.resp
    /\ projects' = out.projects
    /\ requests' = out.requests
    /\ UNCHANGED <<now, users, last, SECRET_KEY, db, inflight>>

ProjectIds == 1..MaxProjects
RequestIds == 1..MaxRequests

CreateProject ==
    \E token \in Bearers :
        \E current_user \in Resolve(token) :
            \E out \in {create_project(token, current_user)} :
                /\ Len(projects) < MaxProjects
                /\ Serve(out)

DeleteProject ==
    \E token \in Bearers, project_id \in ProjectIds :
        \E current_user \in Resolve(token) :
            \E out \in {delete_project(token, current_user, project_id)} :
                Serve(out)

AddCollaborator ==
    \E token \in Bearers, project_id \in ProjectIds, user_id \in Ids :
        \E current_user \in Resolve(token) :
            \E out \in {add_collaborator(token, current_user, project_id,
                                         user_id)} :
                Serve(out)

RemoveCollaborator ==
    \E token \in Bearers, project_id \in ProjectIds, user_id \in Ids :
        \E current_user \in Resolve(token) :
            \E out \in {remove_collaborator(token, current_user, project_id,
                                            user_id)} :
                Serve(out)

CreateRequest ==
    \E token \in Bearers, project_id \in ProjectIds :
        \E current_user \in Resolve(token) :
            \E out \in {create_collaboration_request(token, current_user,
                                                     project_id)} :
                /\ NextRequestId(requests) \in RequestIds
                /\ Serve(out)

UpdateRequest ==
    \E token \in Bearers, request_id \in RequestIds :
        \E status \in RequestStatusEnum, current_user \in Resolve(token) :
            \E out \in {update_collaboration_request(token, current_user,
                                                     request_id, status)} :
                Serve(out)

DeleteRequest ==
    \E token \in Bearers, request_id \in RequestIds :
        \E current_user \in Resolve(token) :
            \E out \in {delete_collaboration_request(token, current_user,
                                                     request_id)} :
                Serve(out)

NextCollab ==
    \/ Register \/ CreateProject \/ DeleteProject
    \/ AddCollaborator \/ RemoveCollaborator
    \/ CreateRequest \/ UpdateRequest \/ DeleteRequest

SpecCollab == Init /\ [][NextCollab]_vars

----------------------------------------------------------------------------
(* Requests served side by side: between the queries a handler checks with *)
(* and its db.commit() another handler may commit.  A request that passed  *)
(* its checks waits in inflight for its commit.                            *)

MaxInflight == 2

\* the row a handler is about to commit
Pending(op, username, email, hashed_password, user_id, project_id, token) ==
    [op |-> op, username |-> username, email |-> email,
     hashed_password |-> hashed_password, user_id |-> user_id,
     project_id |-> project_id, token |-> token]

\* the sequence without its i-th element
Without(seq, i) == SubSeq(seq, 1, i - 1) \o SubSeq(seq, i + 1, Len(seq))

\* a register response remembers the username and the email of its form
RegisterResponse(status, detail, user, username, email) ==
    [Response("register", NoToken, status, detail, user, FALSE, NoToken,
              NoToken)
     EXCEPT !.username = username, !.args.email = email]

\* register up to db.add, routers/auth.py lines 42-69
register_checks(user_data, salt) ==
    LET hashed == get_password_hash(user_data.password, salt)
    IN  IF FindByUsername(users, user_data.username) # NoUser
        THEN /\ resp' = RegisterResponse(400, "Username already registered",
                                         NoUser, user_data.username,
                                         user_data.email)
             /\ UNCHANGED inflight
        ELSE IF FindByEmail(users, user_data.email) # NoUser
        THEN /\ resp' = RegisterResponse(400, "Email already registered",
                                         NoUser, user_data.username,
                                         user_data.email)
             /\ UNCHANGED inflight
        ELSE IF ~hashed.ok
        THEN /\ resp' = RegisterResponse(hashed.status, hashed.detail,
                                         NoUser, user_data.username,
                                         user_data.email)
             /\ UNCHANGED inflight
        ELSE /\ inflight' = Append(inflight,
                    Pending("register", user_data.username, user_data.email,
                            hashed.hash, 0, 0, NoToken))
             /\ UNCHANGED resp

\* db.commit() of register on a users table without unique columns
register_commit_no_unique(i) ==
    LET db_user == inflight[i]
    IN  /\ users' = Append(users,
               [username |-> db_user.username,
                email |-> db_user.email,
                hashed_password |-> db_user.hashed_password,
                is_active |-> TRUE])
        /\ resp' = RegisterResponse(201, "", Len(users) + 1,
                                    db_user.username, db_user.email)

\* db.add, db.commit() of register, routers/auth.py lines 71-103: the
\* unique columns of models/user.py lines 12-13 make the commit raise
\* IntegrityError when the username or the email has been stored meanwhile
register_commit(i) ==
    LET db_user == inflight[i]
    IN  IF \/ FindByUsername(users, db_user.username) # NoUser
           \/ FindByEmail(users, db_user.email) # NoUser
        THEN /\ resp' = RegisterResponse(
                    400, "Failed to register. Integrity constraint violation.",
                    NoUser, db_user.username, db_user.email)
             /\ UNCHANGED users
        ELSE /\ users' = Append(users,
                    [username |-> db_user.username,
                     email |-> db_user.email,
                     hashed_password |-> db_user.hashed_password,
                     is_active |-> TRUE])
             /\ resp' = RegisterResponse(201, "", Len(users) + 1,
                                         db_user.username, db_user.email)

\* the registrations on their way
Registering == {i \in 1..Len(inflight) : inflight[i].op = "register"}

RegisterCheck ==
    \E user_data \in RegForms, salt \in Salts :
        /\ Len(inflight) < MaxInflight
        /\ Len(users) + Cardinality(Registering) < MaxUsers
        /\ register_checks(user_data, salt)
        /\ UNCHANGED <<now, users, last, SECRET_KEY, db, projects, requests>>

RegisterCommit ==
    \E i \in Registering :
        /\ register_commit(i)
        /\ inflight' = Without(inflight, i)
        /\ UNCHANGED <<now, last, SECRET_KEY, db, projects, requests>>

\* create_collaboration_request up to its checks, lines 30-77
CreateRequestCheck ==
    \E token \in Bearers, project_id \in ProjectIds :
        \E checked \in {create_collaboration_request_checks(
                            token, current_user, project_id) :
                        current_user \in Resolve(token)} :
            /\ Len(inflight) < MaxInflight
            /\ IF checked.status # 201
               THEN /\ resp' = Raised("create_collaboration_request", token,
                                      checked.status, checked.detail,
                                      [NoArgs EXCEPT !.project_id = project_id]
                                     ).resp
                    /\ UNCHANGED inflight
               ELSE /\ inflight' = Append(inflight,
                           Pending("create", "", "", MalformedHash,
                                   checked.user, project_id, token))
                    /\ UNCHANGED resp
            /\ UNCHANGED <<now, users, last, SECRET_KEY, db, projects,
                           requests>>

\* db.add(db_request); db.commit(), lines 79-92: no constraint of the
\* table (models/collaboration.py lines 13-31) stands in the way
CreateRequestCommit ==
    \E i \in 1..Len(inflight) :
        LET db_request == inflight[i]
        IN  /\ db_request.op = "create"
            /\ NextRequestId(requests) \in RequestIds
            /\ requests' = InsertRequest(requests, db_request.user_id,
                                         db_request.project_id)
            /\ resp' = Answer("create_collaboration_request",
                              db_request.token, 201, "", db_request.user_id,
                              [NoArgs EXCEPT
                                  !.project_id = db_request.project_id,
                                  !.request_id = NextRequestId(requests)],
                              projects, requests).resp
            /\ inflight' = Without(inflight, i)
            /\ UNCHANGED <<now, users, last, SECRET_KEY, db, projects>>

NextRace ==
    \/ RegisterCheck \/ RegisterCommit \/ CreateProject
    \/ CreateRequestCheck \/ CreateRequestCommit \/ UpdateRequest

SpecRace == Init /\ [][NextRace]_vars

----------------------------------------------------------------------------
(* The issuer on its own: any caller, any dict, as the tests call it       *)

\* the dicts a caller can hand over: with or without a type, an exp and an
\* iat of its own
CallerData ==
    {[Data(sub, NoNonce) EXCEPT !.type = type, !.exp = exp, !.iat = iat] :
        sub \in {IntVal(1), StrVal("1")},
        type \in {NoType, "access", "refresh"},
        exp \in {NoTime, 0, Days(2 * REFRESH_TOKEN_EXPIRE_DAYS)},
        iat \in {NoTime, 0}}

IssueAccess ==
    \E data \in CallerData, random_milliseconds \in Jitter :
        \E expires_delta \in {0, Minutes(ACCESS_TOKEN_EXPIRE_MINUTES)} :
            /\ resp' = [Response("create_access_token", NoToken, 200, "",
                                  NoUser, FALSE,
                                  create_access_token(data, expires_delta, now,
                                                      random_milliseconds),
                                  NoToken)
                         EXCEPT !.data = data]
            /\ UNCHANGED <<now, users, last, SECRET_KEY, others>>

IssueRefresh ==
    \E data \in CallerData, random_milliseconds \in Jitter :
        /\ resp' = [Response("create_refresh_token", NoToken, 200, "",
                              NoUser, FALSE, NoToken,
                              create_refresh_token(data, now,
                                                   random_milliseconds))
                     EXCEPT !.data = data]
        /\ UNCHANGED <<now, users, last, SECRET_KEY, others>>

NextIssuer == Tick \/ IssueAccess \/ IssueRefresh

SpecIssuer == Init /\ [][NextIssuer]_vars

----------------------------------------------------------------------------
(* Properties *)

\* the token type a decode site expects
Expected(op) == IF op = "me" THEN "access" ELSE "refresh"

\* the last request handed a token to decode_token
Decoding == resp.op \in {"me", "refresh"} /\ resp.token # NoToken

\* the token of the last request verifies under the process secret
Signed == resp.token.jws /\ resp.token.key = SECRET_KEY

\* C1: the token type is enforced at both decode sites: /me returns no
\* identity for a token whose type is not "access", /refresh issues nothing
\* for a token whose type is not "refresh", and a correctly signed token of
\* the wrong type is rejected with 401 "Invalid token type".
TypeEnforcedAtDecodeSites ==
    /\ (resp.op = "me" /\ resp.token.type # "access") =>
            (resp.user = NoUser /\ resp.status # 200)
    /\ (resp.op = "refresh" /\ resp.token.type # "refresh") =>
            (resp.status # 200 /\ resp.access = NoToken
             /\ resp.refresh = NoToken)
    /\ (Decoding /\ Signed /\ resp.token.type # Expected(resp.op)) =>
            (resp.status = 401
             /\ resp.detail = InvalidTokenType(Expected(resp.op)))

\* C2: decode_token returns a payload, and a request is authorized, only
\* for a token that passes the full decode: a parseable token whose
\* signature verifies under the process secret and whose exp is not in the
\* past; the unverified pre-check alone lets nothing through.
PayloadOnlyAfterFullVerification ==
    /\ resp.decoded =>
            (resp.token.jws /\ resp.token.key = SECRET_KEY
             /\ resp.token.exp >= resp.at)
    /\ (resp.op \in {"me", "refresh"} /\ resp.status = 200) => resp.decoded

\* a payload was returned for a token the pre-check had let through
PayloadReturned ==
    /\ resp.op = "refresh" /\ resp.decoded /\ resp.status = 200
    /\ ~PreCheckRaises(resp.token, "refresh", resp.at)

\* C3: whenever get_current_user returns a user, the token was signed with
\* the process secret, unexpired at decode time, of type "access", its
\* subject is the integer id of the returned user, and that user is a stored
\* row that was active when it was looked up.
ReturnedUserIsTokenSubject ==
    [][(resp' # resp /\ resp'.op = "me" /\ resp'.user # NoUser) =>
            /\ resp'.token.jws /\ resp'.token.key = SECRET_KEY
            /\ resp'.token.exp >= ToIntDate(now')
            /\ resp'.token.type = "access"
            /\ PyInt(resp'.token.sub) = resp'.user
            /\ resp'.user \in 1..Len(users')
            /\ users'[resp'.user].is_active]_vars

\* /me answered with the second of two stored users
SecondUserResolved ==
    resp.op = "me" /\ resp.status = 200 /\ resp.user = 2 /\ Len(users) = 2

\* C4: a correctly signed, unexpired access token whose subject is a
\* well-formed id that no stored user has fails with 401 "User not found".
MissingUserIs401NotFound ==
    (/\ resp.op = "me" /\ Signed
     /\ resp.token.type = "access" /\ resp.token.exp >= resp.at
     /\ PyInt(resp.token.sub) > Len(users))
    => (resp.status = 401 /\ resp.detail = "User not found")

UnverifiableTokenIsCredentialError ==
    (Decoding /\ ~Signed) =>
        (resp.status = 401 /\ resp.detail = "Could not validate credentials")

\* C7: for every subject, two calls of create_access_token with the same
\* data and the same TTL at the same clock reading return different
\* strings: two logins of one user in one tick get different access tokens.
SameTickAccessTokensDiffer ==
    [][(/\ last'.serial # last.serial
        /\ last.via = "login" /\ last'.via = "login"
        /\ last'.at = last.at
        /\ last'.access.sub = last.access.sub)
       => last'.access # last.access]_vars

\* C8: every successful refresh returns an access and a refresh token
\* neither of which equals its predecessor, the pair issued together with
\* the presented refresh token, also in the tick of that issuance and when
\* the presented token came from a refresh itself.
RefreshedPairDiffersFromPredecessor ==
    [][(/\ last'.serial # last.serial
        /\ last'.via = "refresh"
        /\ resp'.token = last.refresh)
       => (last'.access # last.access /\ last'.refresh # last.refresh)]_vars

\* the user the token of the last request names is stored and active
SubjectActive ==
    /\ PyInt(resp.token.sub) \in 1..Len(users)
    /\ users[PyInt(resp.token.sub)].is_active

\* C9: a successful refresh returns a new access and a new refresh token
\* and revokes nothing: the refresh token of a successful refresh, when it
\* is presented again, is accepted again as long as it is unexpired and its
\* user is stored and active.
RotatedTokenStaysAccepted ==
    /\ (resp.op = "refresh" /\ resp.status = 200) =>
            /\ resp.access.jws /\ resp.access.type = "access"
            /\ resp.refresh.jws /\ resp.refresh.type = "refresh"
    /\ (resp.op = "refresh" /\ resp.replay /\ resp.token.exp >= resp.at
        /\ SubjectActive) => resp.status = 200

\* a refresh token was accepted a second time, after it had been rotated
RotatedTokenAcceptedAgain ==
    resp.op = "refresh" /\ resp.replay /\ resp.status = 200

\* C10: a valid access token of a stored user whose active flag is false,
\* also one issued before the user was deactivated, fails with 401
\* "Inactive user" and returns no identity.
InactiveUserIsRejected ==
    [][(/\ resp' # resp /\ resp'.op = "me"
        /\ resp'.token.jws /\ resp'.token.key = SECRET_KEY
        /\ resp'.token.type = "access"
        /\ resp'.token.exp >= ToIntDate(now')
        /\ resp'.token.sub.t = "str"
        /\ PyInt(resp'.token.sub) \in 1..Len(users')
        /\ ~users'[PyInt(resp'.token.sub)].is_active)
       => (resp'.status = 401 /\ resp'.detail = "Inactive user"
           /\ resp'.user = NoUser)]_vars

\* the access token of a login was turned away after the user's deactivation
LoginTokenOfDeactivatedUser ==
    /\ resp.op = "me" /\ resp.detail = "Inactive user"
    /\ last.via = "login" /\ resp.token = last.access

\* the stored user a login with this username is about, NoUser if none
Account(username) == FindByUsername(users, username)

\* C11: login and refresh never issue tokens for a user whose active flag
\* is false: whenever a pair is issued its user is stored and active; a
\* login with the correct password of an inactive user fails with 401
\* "Account is inactive", a refresh with a valid refresh token of an
\* inactive user fails with 401, and a failed request carries no token.
InactiveUserGetsNoTokens ==
    /\ [](\A u \in Usernames, p \in Passwords :
            (/\ Account(u) # NoUser
             /\ ~users[Account(u)].is_active
             /\ \E salt \in Salts :
                    users[Account(u)].hashed_password = BcryptHashpw(p, salt))
            => \A d \in Draws :
                LET out == login(u, p, d.jitterA, d.jitterR)
                IN  /\ out.issued = <<>>
                    /\ out.resp.status = 401
                    /\ out.resp.detail = "Account is inactive"
                    /\ out.resp.access = NoToken
                    /\ out.resp.refresh = NoToken)
    /\ [][/\ (last'.serial # last.serial) =>
               /\ resp'.status = 200
               /\ resp'.user \in 1..Len(users)
               /\ users[resp'.user].is_active
               /\ PyInt(resp'.access.sub) = resp'.user
               /\ PyInt(resp'.refresh.sub) = resp'.user
          /\ (resp' # resp /\ resp'.op \in {"login", "refresh"}
              /\ resp'.status # 200) =>
               (resp'.access = NoToken /\ resp'.refresh = NoToken)
          /\ (/\ resp' # resp /\ resp'.op = "refresh"
              /\ resp'.token.jws /\ resp'.token.key = SECRET_KEY
              /\ resp'.token.type = "refresh"
              /\ resp'.token.exp >= ToIntDate(now)
              /\ PyInt(resp'.token.sub) \in 1..Len(users)
              /\ ~users[PyInt(resp'.token.sub)].is_active)
             => (resp'.status = 401 /\ resp'.access = NoToken
                 /\ resp'.refresh = NoToken)]_vars

\* a login of a deactivated user was turned away after its password had
\* been found correct
InactiveLoginTurnedAway ==
    /\ resp.op = "login" /\ resp.detail = "Account is inactive"
    /\ Account(resp.username) # NoUser
    /\ ~users[Account(resp.username)].is_active

\* C12: a request to a protected operation that carries no bearer token
\* fails with 401 "Not authenticated" and returns no identity.
NoBearerIsNotAuthenticated ==
    (resp.op = "me" /\ resp.token = NoToken) =>
        (resp.status = 401 /\ resp.detail = "Not authenticated"
         /\ resp.user = NoUser /\ ~resp.decoded)

\* /me was called without a bearer token while users were stored
NoBearerPresented ==
    resp.op = "me" /\ resp.token = NoToken /\ Len(users) > 0

\* the subject of the last request's token is missing, or a string that is
\* no integer
SubjectUnusable ==
    \/ resp.token.sub = NoSub
    \/ resp.token.sub.t = "str" /\ PyInt(resp.token.sub) = 0

\* C13: a verified access token (signed with the process secret, unexpired,
\* of type "access") that has no subject, or a subject that cannot be
\* coerced to the integer id, fails get_current_user with a 401 and returns
\* no identity.
UnusableSubjectIsInvalidCredentials ==
    (/\ resp.op = "me" /\ Signed
     /\ resp.token.type = "access" /\ resp.token.exp >= resp.at
     /\ SubjectUnusable)
    => /\ resp.status = 401 /\ resp.user = NoUser
       /\ resp.detail = IF resp.token.sub = NoSub
                        THEN "Invalid token content: missing user identifier"
                        ELSE "Invalid user identifier format"

\* a verified access token with a non-numeric subject was turned away
NonNumericSubjectPresented ==
    /\ resp.op = "me" /\ Signed /\ resp.decoded
    /\ resp.token.sub = StrVal("abc")
    /\ resp.detail = "Invalid user identifier format"

\* C14: every failure of the identity-resolution pipeline (decode_token,
\* get_current_user, get_current_active_user) is a 401 with a reason
\* string, never a 400 or a 5xx.
ResolutionFailuresAre401 ==
    /\ (resp.op \in {"me", "users"} /\ resp.status # 200) =>
            (resp.status = 401 /\ resp.detail # "")
    /\ (resp.op = "refresh" /\ resp.token # NoToken /\ ~resp.decoded) =>
            (resp.status = 401 /\ resp.detail # "")

\* C18: a missing signing secret is fatal at startup: while no secret is
\* configured the service handles no login, refresh or protected request.
NoRequestServedWithoutSecret ==
    SECRET_KEY = NoKey => resp.op \notin {"login", "refresh", "me", "users"}

\* C15: if password hashing fails during registration, register answers
\* with the hasher's internal error (500 "Password processing error"),
\* passed through unchanged by its own handlers, and no user is added.
HashingFailureIsInternalError ==
    [][\A user_data \in AnyRegForms, salt \in Salts :
        (/\ HashpwRaises(user_data.password)
         /\ FindByUsername(users, user_data.username) = NoUser
         /\ FindByEmail(users, user_data.email) = NoUser
         /\ register(user_data, salt))
        => (/\ resp'.status = 500
            /\ resp'.detail = "Password processing error"
            /\ resp'.user = NoUser
            /\ users' = users)]_vars

\* a registration failed in the hasher while the username was still free
RegistrationFailedInHasher ==
    /\ resp.op = "register" /\ resp.status = 500
    /\ resp.detail = "Password processing error"
    /\ Account("bob") = NoUser

\* C20: verify_password answers false, and does not raise, for a stored
\* hash that is malformed; a login against such a hash, whatever the
\* password, is a wrong password: 401 "Incorrect username or password",
\* no tokens.
MalformedHashIsWrongPassword ==
    /\ [](\A id \in 1..Len(users), p \in Passwords :
            CheckpwRaises(p, users[id].hashed_password)
            => ~verify_password(p, users[id].hashed_password))
    /\ [][(/\ resp' # resp /\ resp'.op = "login"
            /\ Account(resp'.username) # NoUser
            /\ CheckpwRaises(resp'.password,
                             users[Account(resp'.username)].hashed_password))
           => (/\ resp'.status = 401
               /\ resp'.detail = "Incorrect username or password"
               /\ resp'.access = NoToken /\ resp'.refresh = NoToken
               /\ last' = last)]_vars

\* a user who had logged in with this password is turned away with it
\* after the stored hash went bad
GoodPasswordAgainstBadHash ==
    /\ resp.op = "login" /\ resp.status = 401
    /\ resp.password = "S3cret123"
    /\ Account(resp.username) # NoUser
    /\ users[Account(resp.username)].is_active
    /\ users[Account(resp.username)].hashed_password = MalformedHash
    /\ last.via = "login"
    /\ PyInt(last.access.sub) = Account(resp.username)

\* C16: issue/decode round trip: for the id s of the user a pair was
\* issued for, decode_token of the access token with expected type
\* "access" succeeds at every second up to its exp, its sub is the string
\* form of s, and int() of that sub is s again; the same for the refresh
\* token with expected type "refresh".
IssueDecodeRoundTrip ==
    (resp.op \in {"login", "refresh"} /\ resp.status = 200) =>
        /\ \A nowSec \in resp.at..resp.access.exp :
                LET decoded == decode_token(resp.access, "access", nowSec)
                IN  /\ decoded.ok
                    /\ decoded.payload.sub = StrVal(ToString(resp.user))
                    /\ PyInt(decoded.payload.sub) = resp.user
        /\ \A nowSec \in resp.at..resp.refresh.exp :
                LET decoded == decode_token(resp.refresh, "refresh", nowSec)
                IN  /\ decoded.ok
                    /\ decoded.payload.sub = StrVal(ToString(resp.user))
                    /\ PyInt(decoded.payload.sub) = resp.user

\* the access token issued last was decoded in a later second and resolved
\* to the second stored user
IssuedTokenDecodedLater ==
    /\ resp.op = "me" /\ resp.status = 200 /\ resp.user = 2
    /\ resp.token = last.access
    /\ resp.at > ToIntDate(last.at)

\* C17: every access token is issued with exp = iat + ACCESS_TTL + jitter
\* and every refresh token with exp = iat + REFRESH_TTL + jitter, jitter a
\* positive part of a second, by login and by the refresh endpoint alike.
ExpiryIsTtlPlusJitter ==
    [][(last'.serial # last.serial) =>
        /\ last'.access.iat = ToIntDate(now)
        /\ \E j \in Jitter :
              last'.access.exp =
                ToIntDate(now + Minutes(ACCESS_TOKEN_EXPIRE_MINUTES) + j)
        /\ last'.refresh.iat = ToIntDate(now)
        /\ \E j \in Jitter :
              last'.refresh.exp =
                ToIntDate(now + Days(REFRESH_TOKEN_EXPIRE_DAYS) + j)]_vars

\* C17 as amended: every refresh token, and every access token issued by
\* login, has exp = iat + TTL + jitter; an access token issued by the
\* refresh endpoint has exp = iat + ACCESS_TTL + offset + jitter, offset a
\* further random 0.1 to 0.9 minutes.
ExpiryIsTtlPlusJitterPlusRefreshOffset ==
    [][(last'.serial # last.serial) =>
        /\ last'.access.iat = ToIntDate(now)
        /\ last'.via = "login" =>
              \E j \in Jitter :
                last'.access.exp =
                  ToIntDate(now + Minutes(ACCESS_TOKEN_EXPIRE_MINUTES) + j)
        /\ last'.via = "refresh" =>
              \E j \in Jitter, o \in MinutesOffset :
                last'.access.exp =
                  ToIntDate(now + Minutes(ACCESS_TOKEN_EXPIRE_MINUTES) + o + j)
        /\ last'.refresh.iat = ToIntDate(now)
        /\ \E j \in Jitter :
              last'.refresh.exp =
                ToIntDate(now + Days(REFRESH_TOKEN_EXPIRE_DAYS) + j)]_vars

\* the refresh endpoint issued an access token that lives longer than
\* ACCESS_TTL plus any jitter
RefreshIssuedLongerLivedAccess ==
    /\ last.via = "refresh"
    /\ \A j \in Jitter :
          last.access.exp >
            ToIntDate(last.at + Minutes(ACCESS_TOKEN_EXPIRE_MINUTES) + j)

\* the user an issued token names is stored and active
Holder(token) == PyInt(token.sub)
HolderActive(token) ==
    Holder(token) \in 1..Len(users) /\ users[Holder(token)].is_active

\* C19: token validation is stateless: identity resolution leaves the user
\* store alone, and no sequence of earlier requests, failed ones with bad
\* tokens included, changes the outcome of a later one: in every state the
\* service can be in, whatever was asked of it before, an issued token that
\* is unexpired and whose user is stored and active resolves to that user,
\* and a token that has just been turned away by decode_token is turned
\* away again with the same reason.
ValidationIsStateless ==
    /\ [](/\ (last.access # NoToken /\ last.access.exp >= NowSec
              /\ HolderActive(last.access)) =>
               get_current_user(last.access, users, NowSec) =
                   Grant(Holder(last.access))
          /\ (last.refresh # NoToken /\ last.refresh.exp >= NowSec
              /\ HolderActive(last.refresh)) =>
               /\ refresh_validate(last.refresh).status = 200
               /\ refresh_validate(last.refresh).user = Holder(last.refresh)
          /\ (Decoding /\ ~resp.decoded /\ resp.at = NowSec) =>
               LET again == decode_token(resp.token, Expected(resp.op), NowSec)
               IN  /\ ~again.ok
                   /\ again.status = resp.status
                   /\ again.detail = resp.detail)
    /\ [][(resp' # resp /\ resp'.op \in {"me", "users"}) =>
                users' = users]_vars

\* a request with a bad token has just been turned away, and the access
\* token issued before it still resolves to its user
GoodTokenAfterBadRequest ==
    /\ resp.op = "me" /\ resp.token = Garbage /\ resp.status = 401
    /\ last.access # NoToken
    /\ get_current_user(last.access, users, NowSec).status = 200

\* C21: a stored hash verifies the password it was made from and no other
\* one: for every user whose hashed_password is get_password_hash of the
\* password of their registration form, verify_password(p, hash) is true
\* exactly when p is that password.  (A hash is a value of another kind
\* than a password here, so it never equals the plaintext.)
HashVerifiesOnlyItsOwnPassword ==
    \A id \in 1..Len(users), form \in AnyRegForms, salt \in Salts :
        LET hashed == get_password_hash(form.password, salt)
        IN  (/\ hashed.ok
             /\ users[id].username = form.username
             /\ users[id].hashed_password = hashed.hash) =>
                \A p \in AnyPasswords :
                    verify_password(p, hashed.hash) <=> (p = form.password)

\* what the client sees of a response: all but the remembered credentials
Seen(response) == [response EXCEPT !.username = "", !.password = ""]

\* C22: login does not tell whether a username exists: a login with an
\* unknown username and a login with a known username and a password that
\* does not verify get the same response, 401 "Incorrect username or
\* password" without a token, and neither issues a pair.
LoginFailureHidesUsername ==
    /\ [](\A u \in Usernames, v \in Usernames :
            \A p \in AnyPasswords, q \in AnyPasswords :
                (/\ Account(u) = NoUser
                 /\ Account(v) # NoUser
                 /\ ~verify_password(q, users[Account(v)].hashed_password))
                => LET unknown == login(u, p, 1, 1)
                       wrong == login(v, q, 1, 1)
                   IN  /\ Seen(unknown.resp) = Seen(wrong.resp)
                       /\ unknown.issued = <<>>
                       /\ wrong.issued = <<>>)
    /\ [][(/\ resp' # resp /\ resp'.op = "login"
           /\ \/ Account(resp'.username) = NoUser
              \/ ~verify_password(
                     resp'.password,
                     users[Account(resp'.username)].hashed_password))
          => /\ resp'.status = 401
             /\ resp'.detail = "Incorrect username or password"
             /\ resp'.access = NoToken
             /\ resp'.refresh = NoToken
             /\ resp'.user = NoUser
             /\ last' = last]_vars

\* a known username was turned away for its password while another
\* username is unknown
WrongPasswordForKnownUser ==
    /\ resp.op = "login"
    /\ resp.status = 401
    /\ resp.detail = "Incorrect username or password"
    /\ Account(resp.username) # NoUser
    /\ \E u \in Usernames : Account(u) = NoUser

\* a reason string that holds the text of an internal exception
CarriesInternalState(detail) ==
    \E e \in {OperationalError, KeyError} :
        detail \in {e, InvalidTokenWith(e)}

\* C24: no failure response of login, refresh or identity resolution
\* carries internal state in its reason string: the text of an internal
\* exception never reaches the client.
NoFailureCarriesInternalState ==
    (resp.op \in {"login", "refresh", "me", "users"} /\ resp.status # 200)
        => ~CarriesInternalState(resp.detail)

\* C25: the identity resolver stops at its first failure and asks the
\* persistence layer at most once: a request behind get_current_user makes
\* one lookup exactly when a bearer token was presented, decode_token with
\* its type check succeeded and the subject is a number, and none
\* otherwise; a lookup that finds nobody ends the request with a failure.
ResolverLooksUpOnceAndLast ==
    [][(resp' # resp /\ resp'.op \in {"me", "users"}) =>
        LET token == resp'.token
            decoded == decode_token(token, "access", NowSec)
            sub == decoded.payload.sub
            ready == /\ token # NoToken
                     /\ decoded.ok
                     /\ sub # NoSub
                     /\ PyInt(sub) # 0
        IN  /\ resp'.lookups = IF ready THEN 1 ELSE 0
            /\ ~ready => (resp'.status # 200 /\ resp'.user = NoUser)
            /\ (ready /\ FindById(users, IntVal(PyInt(sub))) = NoUser)
                   => (resp'.status # 200 /\ resp'.user = NoUser)]_vars

\* a request whose one lookup found nobody was turned away
FailedLookupEndedRequest ==
    /\ resp.op = "me"
    /\ resp.lookups = 1
    /\ resp.status # 200
    /\ resp.detail = "Database error"

\* C30: the issuer sets the type tag and the times itself: a token made by
\* create_access_token has type "access", one made by create_refresh_token
\* has type "refresh", both with iat at the issuer's clock and exp at the
\* issuer's clock plus the time to live and the jitter, whatever type, exp
\* or iat the caller's dict holds; the subject is the caller's, as a string.
IssuerSetsTypeAndTimes ==
    [][/\ (resp' # resp /\ resp'.op = "create_access_token") =>
            /\ resp'.access.type = "access"
            /\ resp'.access.iat = ToIntDate(now)
            /\ \E j \in Jitter :
                   resp'.access.exp =
                       ToIntDate(now + Minutes(ACCESS_TOKEN_EXPIRE_MINUTES) + j)
            /\ resp'.access.sub = PyStr(resp'.data.sub)
       /\ (resp' # resp /\ resp'.op = "create_refresh_token") =>
            /\ resp'.refresh.type = "refresh"
            /\ resp'.refresh.iat = ToIntDate(now)
            /\ \E j \in Jitter :
                   resp'.refresh.exp =
                       ToIntDate(now + Days(REFRESH_TOKEN_EXPIRE_DAYS) + j)
            /\ resp'.refresh.sub = PyStr(resp'.data.sub)]_vars

\* an access token was made from a dict that said type "refresh" and had
\* an exp and an iat of its own
AccessIssuedFromRefreshData ==
    /\ resp.op = "create_access_token"
    /\ resp.data.type = "refresh"
    /\ resp.data.exp # NoTime
    /\ resp.data.iat # NoTime
    /\ resp.access.type = "access"

\* the user a request to the two routers was made as, NoUser if the
\* resolver turned it away
Caller(response) ==
    get_current_active_user(response.token, users, NowSec).user

\* the collaboration request a response is about, as it was stored when
\* the request came
Target(response) == FindRequest(requests, response.args.request_id)

Resolved(r) == r # NoRequest /\ r.status \in {ACCEPTED, REJECTED}

\* C26 as stated: once a collaboration request is ACCEPTED or REJECTED every
\* later update_collaboration_request and every delete_collaboration_request
\* of an authenticated user on it is rejected with 400, and it keeps its
\* status and is never deleted.
ResolvedRequestCallsAre400 ==
    [][/\ (/\ resp' # resp
           /\ resp'.op \in {"update_collaboration_request",
                             "delete_collaboration_request"}
           /\ Caller(resp') # NoUser
           /\ Resolved(Target(resp')))
          => resp'.status = 400
       /\ \A r \in requests : Resolved(r) => r \in requests']_vars

\* C26, amended: a collaboration request that is ACCEPTED or REJECTED keeps
\* its status and is never deleted: every later update and withdraw on it
\* is rejected, with 400 when the caller is the party entitled to it (the
\* project creator for an update, the requesting user for a withdraw) and
\* with 403 for any other authenticated user, and no step of any handler
\* changes or removes the row.
ResolvedRequestIsFinal ==
    [][/\ (/\ resp' # resp
           /\ resp'.op = "update_collaboration_request"
           /\ Caller(resp') # NoUser
           /\ Resolved(Target(resp')))
          => resp'.status =
                IF projects[Target(resp').project_id].creator_id
                       = Caller(resp')
                THEN 400 ELSE 403
       /\ (/\ resp' # resp
           /\ resp'.op = "delete_collaboration_request"
           /\ Caller(resp') # NoUser
           /\ Resolved(Target(resp')))
          => resp'.status =
                IF Target(resp').user_id = Caller(resp') THEN 400 ELSE 403
       /\ \A r \in requests : Resolved(r) => r \in requests']_vars

\* the project creator asked to change a request that was resolved before
\* and was told 400
UpdateOfResolvedRequestRefused ==
    /\ resp.op = "update_collaboration_request"
    /\ resp.status = 400
    /\ Resolved(Target(resp))
    /\ resp.args.status # Target(resp).status

\* C27: every successful update_collaboration_request is an accept or a
\* reject: afterwards the request's status is ACCEPTED or REJECTED, never
\* PENDING, and responded_at is set; if the status is ACCEPTED the
\* requesting user is among the project's collaborators.
SuccessfulUpdateResolves ==
    [][(/\ resp' # resp
        /\ resp'.op = "update_collaboration_request"
        /\ resp'.status = 200)
       => LET after == FindRequest(requests', resp'.args.request_id)
          IN  /\ after.status \in {ACCEPTED, REJECTED}
              /\ after.responded_at # NoTime
              /\ after.status = ACCEPTED =>
                     after.user_id \in
                         projects'[after.project_id].collaborators]_vars

\* C29: only the creator of the project changes a collaboration request's
\* status and only the user who made the request withdraws it: for any
\* other authenticated user update_collaboration_request and
\* delete_collaboration_request fail with 403 and leave the requests and
\* the projects as they were; a step that changes the status of a request
\* is an update by the project's creator, a step that removes one a
\* withdraw by its user.
OnlyPartiesActOnRequest ==
    [][/\ (/\ resp' # resp
           /\ resp'.op = "update_collaboration_request"
           /\ Caller(resp') # NoUser
           /\ Target(resp') # NoRequest
           /\ projects[Target(resp').project_id].creator_id # Caller(resp'))
          => /\ resp'.status = 403
             /\ requests' = requests
             /\ projects' = projects
       /\ (/\ resp' # resp
           /\ resp'.op = "delete_collaboration_request"
           /\ Caller(resp') # NoUser
           /\ Target(resp') # NoRequest
           /\ Target(resp').user_id # Caller(resp'))
          => /\ resp'.status = 403
             /\ requests' = requests
             /\ projects' = projects
       /\ \A r \in requests :
             /\ (\E after \in requests' :
                    after.id = r.id /\ after.status # r.status)
                => /\ resp'.op = "update_collaboration_request"
                   /\ resp'.args.request_id = r.id
                   /\ Caller(resp') = projects[r.project_id].creator_id
             /\ (\A after \in requests' : after.id # r.id)
                => /\ resp'.op = "delete_collaboration_request"
                   /\ resp'.args.request_id = r.id
                   /\ Caller(resp') = r.user_id]_vars

\* the requesting user tried to accept their own pending request and was
\* told 403
RequesterMayNotAccept ==
    /\ resp.op = "update_collaboration_request"
    /\ resp.status = 403
    /\ resp.args.status = ACCEPTED
    /\ Target(resp).status = PENDING
    /\ Target(resp).user_id = Caller(resp)

\* C23: after any sequence and interleaving of register requests no two
\* user records share a username or an email: a registration whose
\* username or email is already stored, at its checks or by the time it
\* commits, is rejected with 400 and leaves the users table unchanged.
UsersStayUnique ==
    /\ [](\A i \in 1..Len(users), j \in 1..Len(users) :
            i # j => /\ users[i].username # users[j].username
                     /\ users[i].email # users[j].email)
    /\ [][(/\ resp' # resp
           /\ resp'.op = "register"
           /\ \/ FindByUsername(users, resp'.username) # NoUser
              \/ FindByEmail(users, resp'.args.email) # NoUser)
          => (resp'.status = 400 /\ users' = users)]_vars

\* a registration that passed its checks lost the race and was rejected
\* at its commit
RegistrationLostRace ==
    /\ resp.op = "register"
    /\ resp.status = 400
    /\ resp.detail = "Failed to register. Integrity constraint violation."
    /\ FindByUsername(users, resp.username) # NoUser

\* C28: after any sequence and interleaving of create_collaboration_request
\* calls there is at most one PENDING collaboration request per user and
\* project.
AtMostOnePendingPerPair ==
    \A r1 \in requests, r2 \in requests :
        (/\ r1.user_id = r2.user_id
         /\ r1.project_id = r2.project_id
         /\ r1.status = PENDING
         /\ r2.status = PENDING) => r1 = r2

====
